---- MODULE Spec2Model ----
(***************************************************************************)
(* A model of iocraft: the Handler property type (iocraft/src/handler.rs), *)
(* the Text leaf component (io/src/components/text.rs), and the component  *)
(* tree lifecycle engine (reconciler, hook slot store, context stack and   *)
(* render scheduling) that the macros of iocraft-macros/src/lib.rs call,   *)
(* and the element! and #[component] macros of that file.                  *)
(*                                                                         *)
(* The module holds several specifications, one per subsystem.  Each one   *)
(* moves its own variables and leaves the others at their initial values.  *)
(***************************************************************************)
EXTENDS Integers, Sequences, FiniteSets, TLC

VARIABLES
    \* ---- Handler (handler.rs)
    handler,      \* the handler slot a component's property bundle holds
    taken,        \* the handler values take() returned, still owned by callers
    calls,        \* what the callables observed: one entry per call
    raised,       \* TRUE once a Handler operation has raised (panicked)
    hop,          \* the last Handler operation performed, with its arguments
    \* ---- Text (text.rs)
    text,         \* the Text component: style.foreground_color and content
    measure_func, \* the measure function the updater holds for the leaf's node
    measured,     \* the layout engine's last call of the measure function
    top,          \* the last Text operation performed
    \* ---- Component tree lifecycle engine (reconciler, hook store, driving loop)
    tree,         \* the committed Instance list of one tree position
    queue,        \* the re-render requests enqueued and not yet served
    passlog,      \* the events the last engine operation produced, in order
    turn,         \* the last engine operation: a setter call or a loop turn
    \* ---- Context stack (one render pass over a component tree)
    cparent,      \* the component tree of the pass: each node's parent, 0 for the root
    cprovides,    \* the type tag each component provides a value of, or "none"
    cstack,       \* the context stack: the frames pushed and not yet popped
    cpath,        \* the components whose update is running, outermost first
    cvisited,     \* the components whose update has started
    observed,     \* the context references each component's update obtained
    \* ---- element! macro (iocraft-macros/src/lib.rs)
    decl,         \* the element declaration handed to element!
    built,        \* what the expansion of the declaration evaluated to
    \* ---- #[component] macro: the generated Component::update
    context_type, \* whether the component function takes a context argument
    upc,          \* where the running update is, "idle" between updates
    context_refs, \* TRUE while the update holds the context references
    produced,     \* the Element the implementation returned, converted
    registered,   \* the children the Updater was last given by update_children
    utrace,       \* what the current or last update did, in order
    nupdates      \* the updates begun so far

handlerVars == <<handler, taken, calls, raised, hop>>
textVars == <<text, measure_func, measured, top>>
engineVars == <<tree, queue, passlog, turn>>
contextVars == <<cparent, cprovides, cstack, cpath, cvisited, observed>>
elementVars == <<decl, built>>
componentVars ==
    <<context_type, upc, context_refs, produced, registered, utrace, nupdates>>
vars == <<handlerVars, textVars, engineVars, contextVars, elementVars, componentVars>>

\* What each subsystem's actions leave alone.
notHandler == <<textVars, engineVars, contextVars, elementVars, componentVars>>
notText == <<handlerVars, engineVars, contextVars, elementVars, componentVars>>
notEngine == <<handlerVars, textVars, contextVars, elementVars, componentVars>>
notContext == <<handlerVars, textVars, engineVars, elementVars, componentVars>>
notComponent == <<handlerVars, textVars, engineVars, contextVars, elementVars>>
notElement == <<handlerVars, textVars, engineVars, contextVars, componentVars>>

(***************************************************************************)
(* Bounds of the model.                                                    *)
(***************************************************************************)
NumFns == 2
MaxCalls == 3
MaxTaken == 2
MaxContentLen == 2
MaxAvail == 2
MaxChildren == 2
MaxRequests == 2
MaxNodes == 3
MaxDeclChildren == 2
MaxPassThrough == 2
MaxUpdates == 3

\* Last element of a non-empty sequence.
Last(s) == s[Len(s)]

(***************************************************************************)
(* Handler<'a, T>                                                          *)
(***************************************************************************)
\* The callables a handler can be built from, and the values passed to them.
Fns == 1..NumFns
Values == {0, 42}

\* enum Handler { None, Function(Box<dyn FnMut(T)>) }; None is the default.
HandlerNone == [tag |-> "None", f |-> 0]
HandlerFunction(f) == [tag |-> "Function", f |-> f]
HandlerDefault == HandlerNone

\* impl From<F> for Handler: Self::Function(Box::new(f)).
HandlerFrom(f) == HandlerFunction(f)

\* is_none: matches!(self, Self::None).
IsNone(h) == h.tag = "None"

\* take: std::mem::take(self) moves the content out and leaves the default.
TakeKeepsSlot(h) == [slot |-> h, ret |-> h]
Take(h) == [slot |-> HandlerDefault, ret |-> h]

\* invoke: Function(f) => f(value), None => {}.  The result is the call log
\* after the invocation and whether the invocation raised.
InvokeUnwraps(h, value, via, log) ==
    IF h.tag = "Function"
    THEN [log |-> Append(log, [f |-> h.f, value |-> value, via |-> via]), raised |-> FALSE]
    ELSE [log |-> log, raised |-> TRUE]
InvokeOnceOnly(h, value, via, log) ==
    IF h.tag = "Function" /\ \A i \in DOMAIN log : log[i].via # via
    THEN [log |-> Append(log, [f |-> h.f, value |-> value, via |-> via]), raised |-> FALSE]
    ELSE [log |-> log, raised |-> FALSE]
Invoke(h, value, via, log) ==
    IF h.tag = "Function"
    THEN [log |-> Append(log, [f |-> h.f, value |-> value, via |-> via]), raised |-> FALSE]
    ELSE [log |-> log, raised |-> FALSE]

HandlerOp(op, value, idx, result) == [op |-> op, value |-> value, idx |-> idx, result |-> result]

\* The Handler variables while another subsystem runs.
HandlerIdle ==
    /\ handler = HandlerDefault
    /\ taken = <<>>
    /\ calls = <<>>
    /\ raised = FALSE
    /\ hop = HandlerOp("new", 0, 0, FALSE)

HandlerInit ==
    /\ handler \in {HandlerDefault} \cup {HandlerFrom(f) : f \in Fns}
    /\ taken = <<>>
    /\ calls = <<>>
    /\ raised = FALSE
    /\ hop = HandlerOp("new", 0, 0, FALSE)

\* handler.is_none()
HandlerIsNone ==
    /\ hop' = HandlerOp("is_none", 0, 0, IsNone(handler))
    /\ UNCHANGED <<handler, taken, calls, raised, notHandler>>

\* let t = handler.take();  the caller keeps the returned value.
HandlerTake ==
    /\ Len(taken) < MaxTaken
    /\ handler' = Take(handler).slot
    /\ taken' = Append(taken, Take(handler).ret)
    /\ hop' = HandlerOp("take", 0, Len(taken) + 1, FALSE)
    /\ UNCHANGED <<calls, raised, notHandler>>

\* handler.invoke(value) on the slot itself.
HandlerInvoke(value) ==
    /\ Len(calls) < MaxCalls
    /\ calls' = Invoke(handler, value, 0, calls).log
    /\ raised' = (raised \/ Invoke(handler, value, 0, calls).raised)
    /\ hop' = HandlerOp("invoke", value, 0, FALSE)
    /\ UNCHANGED <<handler, taken, notHandler>>

\* t.invoke(value) on the idx-th value an earlier take() returned.
HandlerInvokeTaken(idx, value) ==
    /\ Len(calls) < MaxCalls
    /\ idx \in DOMAIN taken
    /\ calls' = Invoke(taken[idx], value, idx, calls).log
    /\ raised' = (raised \/ Invoke(taken[idx], value, idx, calls).raised)
    /\ hop' = HandlerOp("invoke_taken", value, idx, FALSE)
    /\ UNCHANGED <<handler, taken, notHandler>>

\* handler.take().invoke(value): the returned value is a temporary, invoked
\* once and dropped at the end of the statement.
TemporaryVia == -1
HandlerTakeInvoke(value) ==
    /\ Len(calls) < MaxCalls
    /\ handler' = Take(handler).slot
    /\ calls' = Invoke(Take(handler).ret, value, TemporaryVia, calls).log
    /\ raised' = (raised \/ Invoke(Take(handler).ret, value, TemporaryVia, calls).raised)
    /\ hop' = HandlerOp("take_invoke", value, 0, FALSE)
    /\ UNCHANGED <<taken, notHandler>>

HandlerNext ==
    \/ HandlerIsNone
    \/ HandlerTake
    \/ \E value \in Values : HandlerTakeInvoke(value)
    \/ \E value \in Values : HandlerInvoke(value)
    \/ \E idx \in 1..MaxTaken, value \in Values : HandlerInvokeTaken(idx, value)

(***************************************************************************)
(* Text                                                                    *)
(***************************************************************************)
\* The characters of a content string, each with the bytes of its UTF-8 form.
Chars == {"h", "i", "e_acute"}
Utf8Len(c) == IF c = "e_acute" THEN 2 ELSE 1
Colors == {"None", "Red"}

RECURSIVE SeqsUpTo(_, _)
SeqsUpTo(S, n) ==
    IF n = 0 THEN {<<>>}
    ELSE LET shorter == SeqsUpTo(S, n - 1)
         IN shorter \cup {Append(s, c) : s \in {t \in shorter : Len(t) = n - 1}, c \in S}

Contents == SeqsUpTo(Chars, MaxContentLen)

\* TextProps { color: Option<Color>, content: String }
TextProps == [color : Colors, content : Contents]

\* String::len: the number of bytes of the string's UTF-8 encoding.
RECURSIVE StrLen(_)
StrLen(s) == IF s = <<>> THEN 0 ELSE Utf8Len(Head(s)) + StrLen(Tail(s))

\* `as f32` of a usize: the nearest value with a 24-bit significand, ties to even.
MantissaBits == 24
RECURSIVE Pow2(_)
Pow2(n) == IF n = 0 THEN 1 ELSE 2 * Pow2(n - 1)
RECURSIVE BitLen(_)
BitLen(n) == IF n = 0 THEN 0 ELSE 1 + BitLen(n \div 2)
AsF32(n) ==
    IF BitLen(n) <= MantissaBits THEN n
    ELSE LET unit == Pow2(BitLen(n) - MantissaBits)
             q == n \div unit
             r == n % unit
             up == (2 * r > unit) \/ (2 * r = unit /\ q % 2 = 1)
         IN (IF up THEN q + 1 ELSE q) * unit

\* set_props: style.foreground_color = props.color; content = props.content.
SetProps(t, props) == [t EXCEPT !.color = props.color, !.content = props.content]

\* new: ContentStyle::new(), content "", then set_props(props).
TextNew(props) == SetProps([color |-> "None", content |-> <<>>], props)

\* The closure update registers: move |_, _, _| Size { width, height: 1.0 }.
Measure(mf, known, avail_w, avail_h) == [width |-> mf.width, height |-> 1]

\* update: let width = self.content.len() as f32; updater.set_measure_func(..).
UpdateCountsChars(t) == [set |-> TRUE, width |-> AsF32(Len(t.content))]
Update(t) == [set |-> TRUE, width |-> AsF32(StrLen(t.content))]

\* The constraints the layout engine passes a measure function.
Avail == 0..MaxAvail
Known == {"None", "Some"}

NoMeasureFunc == [set |-> FALSE, width |-> 0]
NotMeasured == [called |-> FALSE, known |-> "None", avail_w |-> 0, avail_h |-> 0,
                width |-> 0, height |-> 0]

\* The Text variables while another subsystem runs.
TextIdle ==
    /\ text = TextNew([color |-> "None", content |-> <<>>])
    /\ measure_func = NoMeasureFunc
    /\ measured = NotMeasured
    /\ top = "new"

TextInit ==
    /\ text \in {TextNew(props) : props \in TextProps}
    /\ measure_func = NoMeasureFunc
    /\ measured = NotMeasured
    /\ top = "new"

TextSetProps(props) ==
    /\ text' = SetProps(text, props)
    /\ top' = "set_props"
    /\ UNCHANGED <<measure_func, measured, notText>>

TextUpdate ==
    /\ measure_func' = Update(text)
    /\ top' = "update"
    /\ UNCHANGED <<text, measured, notText>>

\* The layout engine calls the registered measure function.
TextMeasure(known, avail_w, avail_h) ==
    /\ measure_func.set
    /\ measured' = [called |-> TRUE, known |-> known, avail_w |-> avail_w, avail_h |-> avail_h,
                    width |-> Measure(measure_func, known, avail_w, avail_h).width,
                    height |-> Measure(measure_func, known, avail_w, avail_h).height]
    /\ top' = "measure"
    /\ UNCHANGED <<text, measure_func, notText>>

TextNext ==
    \/ \E props \in TextProps : TextSetProps(props)
    \/ TextUpdate
    \/ \E known \in Known, avail_w \in Avail, avail_h \in Avail : TextMeasure(known, avail_w, avail_h)

(***************************************************************************)
(* Component tree lifecycle engine: Elements, Instances, the hook slot     *)
(* store, the reconciler and the driving loop.                             *)
(***************************************************************************)
NoKey == 0
PropVals == {0, 1}
StateVals == {0, 1}
NoPending == -1
InitialState == 0

\* Element { type_tag, key, props }: what should exist at one place of the
\* declared child list: an A with key 1 (and either property value), an A
\* with key 2, an A without a key, a B without a key.
Elements ==
    [type : {"A"}, key : {1}, prop : PropVals]
        \cup [type : {"A"}, key : {NoKey, 2}, prop : {0}]
        \cup [type : {"B"}, key : {NoKey}, prop : {0}]
ElementLists == SeqsUpTo(Elements, MaxChildren)

\* The hooks each component type's update logic calls, in call order.  A
\* holds a state cell, an effect keyed by its property and an effect that runs
\* once, both with a cleanup; B holds one effect that has no cleanup.
HookSpec(type) ==
    IF type = "A"
    THEN <<[kind |-> "state", dep |-> "none", cleanup |-> FALSE],
           [kind |-> "effect", dep |-> "prop", cleanup |-> TRUE],
           [kind |-> "effect", dep |-> "once", cleanup |-> TRUE]>>
    ELSE <<[kind |-> "effect", dep |-> "once", cleanup |-> FALSE]>>
MaxSlots == Len(HookSpec("A"))

\* The identity key of the i-th new Element: (type_tag, key), or, for an
\* Element without a key and for the second occurrence of a (type_tag, key),
\* (type_tag, positional index among the siblings of the same type).
SameTypeUpTo(elements, i) ==
    Cardinality({j \in 1..i : elements[j].type = elements[i].type})
Identity(elements, i) ==
    LET e == elements[i]
        first == \A j \in 1..(i - 1) :
                    ~(elements[j].type = e.type /\ elements[j].key = e.key)
    IN IF e.key # NoKey /\ first
       THEN [type |-> e.type, by |-> "key", k |-> e.key]
       ELSE [type |-> e.type, by |-> "pos", k |-> SameTypeUpTo(elements, i)]

\* The index in the Instance list of the Instance with identity id, 0 if none.
FindSameType(instances, id) ==
    IF \E j \in DOMAIN instances : instances[j].ident.type = id.type
    THEN CHOOSE j \in DOMAIN instances :
            /\ instances[j].ident.type = id.type
            /\ \A l \in 1..(j - 1) : instances[l].ident.type # id.type
    ELSE 0
Find(instances, id) ==
    IF \E j \in DOMAIN instances : instances[j].ident = id
    THEN CHOOSE j \in DOMAIN instances : instances[j].ident = id
    ELSE 0

\* One event of a render pass.  For "update" m is the index the Instance had
\* and n the index it gets; for "cleanup" and "effect" n is the slot; for
\* "usage_violation" m is the cursor at the end of the update and n the slot
\* count recorded at the first mount.
Event(ev, id, m, n) == [ev |-> ev, id |-> id, m |-> m, n |-> n]

\* A new Instance: the constructor's result, with an empty hook store.
NewInstance(id) == [ident |-> id, slots |-> <<>>, count |-> 0, cursor |-> 0]

\* The dependency key an effect hook is called with.
DepOf(spec, prop) == IF spec.dep = "prop" THEN prop + 1 ELSE 0

\* One hook call of an update, on the slot after the cursor.  A slot that does
\* not exist yet is appended (first mount).  A state cell takes its pending
\* value; an effect whose dependency key changed is scheduled to run, after the
\* cleanup of the effect it replaces.
HookCall(store, id, spec, prop) ==
    LET at == store.cursor + 1
        fresh == at > Len(store.slots)
        old == IF fresh THEN [kind |-> spec.kind, value |-> InitialState,
                              pending |-> NoPending, dep |-> 0, cleanup |-> FALSE]
               ELSE store.slots[at]
        rerun == spec.kind = "effect" /\ (fresh \/ old.dep # DepOf(spec, prop))
        new == IF spec.kind = "state"
               THEN [old EXCEPT !.value = IF old.pending = NoPending THEN old.value
                                          ELSE old.pending,
                                !.pending = NoPending]
               ELSE IF rerun
                    THEN [old EXCEPT !.dep = DepOf(spec, prop), !.cleanup = spec.cleanup]
                    ELSE old
        scheduled == IF rerun
                     THEN (IF old.cleanup THEN <<Event("cleanup", id, 0, at)>> ELSE <<>>)
                              \o <<Event("effect", id, 0, at)>>
                     ELSE <<>>
    IN [slots |-> IF fresh THEN Append(store.slots, new)
                  ELSE [store.slots EXCEPT ![at] = new],
        cursor |-> at,
        effects |-> store.effects \o scheduled]

\* The hook calls of one update, from the call-th on.
RECURSIVE HookCalls(_, _, _, _, _)
HookCalls(store, id, prop, call, ncalls) ==
    IF call > ncalls THEN store
    ELSE HookCalls(HookCall(store, id, HookSpec(id.type)[call], prop),
                   id, prop, call + 1, ncalls)

\* The cursor an update starts with: it is reset to zero.
StartCursorKept(inst) == inst.cursor
StartCursor(inst) == 0

\* One component's update, of the Instance inst (new, or found at index j of
\* the tree) for the i-th Element: the cursor is reset, the update logic makes
\* ncalls hook calls, and the cursor is compared with the slot count recorded
\* at the first mount.
UpdateInstance(inst, id, j, i, prop, ncalls, raises) ==
    LET done == HookCalls([slots |-> inst.slots, cursor |-> StartCursor(inst),
                           effects |-> <<>>],
                          id, prop, 1, ncalls)
        first == inst.count = 0
        violation == ~first /\ done.cursor # inst.count
    IN [ok |-> ~violation /\ ~raises,
        inst |-> [ident |-> id, slots |-> done.slots,
                  count |-> IF first THEN done.cursor ELSE inst.count,
                  cursor |-> done.cursor],
        walked |-> IF first THEN <<Event("mount", id, 0, i)>>
                   ELSE <<Event("update", id, j, i)>>,
        effects |-> done.effects,
        fault |-> IF violation
                  THEN <<Event("usage_violation", id, done.cursor, inst.count)>>
                  ELSE IF raises THEN <<Event("raise", id, 0, 0)>> ELSE <<>>]

\* What a pass is told about the update logic it will run: no fault, or the
\* update of the at-th Element raises, or it skips its last hook call.
NoFault == [kind |-> "none", at |-> 0]
Faults == {NoFault} \cup [kind : {"raise", "skip"}, at : 1..MaxChildren]

\* The walk over the new Element list, in its declared order, from Element i:
\* each Element is matched by identity with an existing Instance or gets a new
\* one, and that Instance's update runs.  The walk stops at the first failure.
RECURSIVE Walk(_, _, _, _, _)
Walk(instances, elements, fault, i, acc) ==
    IF i > Len(elements) THEN acc
    ELSE LET id == Identity(elements, i)
             j == Find(instances, id)
             inst == IF j = 0 THEN NewInstance(id) ELSE instances[j]
             full == Len(HookSpec(id.type))
             ncalls == IF fault = [kind |-> "skip", at |-> i] THEN full - 1 ELSE full
             u == UpdateInstance(inst, id, j, i, elements[i].prop, ncalls,
                                 fault = [kind |-> "raise", at |-> i])
             next == [ok |-> u.ok,
                      staged |-> Append(acc.staged, u.inst),
                      walked |-> acc.walked \o u.walked,
                      effects |-> acc.effects \o u.effects,
                      fault |-> u.fault]
         IN IF u.ok THEN Walk(instances, elements, fault, i + 1, next) ELSE next

\* Unmount of one Instance: every slot's cleanup, in slot order, then the drop.
RECURSIVE Cleanups(_, _)
Cleanups(inst, n) ==
    IF n > Len(inst.slots) THEN <<>>
    ELSE (IF inst.slots[n].cleanup THEN <<Event("cleanup", inst.ident, 0, n)>> ELSE <<>>)
             \o Cleanups(inst, n + 1)
UnmountDropsFirst(inst) == <<Event("drop", inst.ident, 0, 0)>> \o Cleanups(inst, 1)
Unmount(inst) == Cleanups(inst, 1) \o <<Event("drop", inst.ident, 0, 0)>>

\* The existing Instances no new Element matched, unmounted one after another.
RECURSIVE UnmountUnmatched(_, _, _)
UnmountUnmatched(instances, staged, j) ==
    IF j > Len(instances) THEN <<>>
    ELSE (IF Find(staged, instances[j].ident) = 0 THEN Unmount(instances[j]) ELSE <<>>)
             \o UnmountUnmatched(instances, staged, j + 1)

\* A pass whose walk succeeded is committed: the staged Instances become the
\* tree, the unmatched Instances are unmounted and the scheduled effects run.
Commit(instances, w) ==
    [ok |-> TRUE,
     tree |-> w.staged,
     log |-> w.walked \o UnmountUnmatched(instances, w.staged, 1) \o w.effects]

\* A pass whose walk failed is aborted: the tree stays as last committed.
AbortKeepsPartial(instances, w) ==
    [ok |-> FALSE,
     tree |-> w.staged \o SubSeq(instances, Len(w.staged) + 1, Len(instances)),
     log |-> w.fault]
Abort(instances, w) == [ok |-> FALSE, tree |-> instances, log |-> w.fault]

\* One render pass over the tree position.
RenderPass(instances, elements, fault) ==
    LET w == Walk(instances, elements, fault, 1,
                  [ok |-> TRUE, staged |-> <<>>, walked |-> <<>>, effects |-> <<>>,
                   fault |-> <<>>])
    IN IF w.ok THEN Commit(instances, w) ELSE Abort(instances, w)

\* The requests left in the queue by one turn of the driving loop that finds
\* n requests: it coalesces them all into the one pass it runs.
DrainOne(n) == n - 1
Drain(n) == 0

\* A fault names an Element of the list; a skipped hook call needs an update
\* of an existing Instance (the first mount is what records the slot count).
FaultApplies(instances, elements, fault) ==
    \/ fault = NoFault
    \/ /\ fault.at \in DOMAIN elements
       /\ fault.kind = "skip" => Find(instances, Identity(elements, fault.at)) # 0

\* The last engine operation: "set" or "turn", the requests a turn served and
\* the fault its pass was told.
EngineOp(op, served, fault) == [op |-> op, served |-> served, fault |-> fault]

\* The engine variables while another subsystem runs.
EngineIdle ==
    /\ tree = <<>>
    /\ queue = 0
    /\ passlog = <<>>
    /\ turn = EngineOp("new", 0, NoFault)

\* The first render has been requested and nothing is mounted.
EngineInit ==
    /\ tree = <<>>
    /\ queue = 1
    /\ passlog = <<>>
    /\ turn = EngineOp("new", 0, NoFault)

\* An event handler calls the setter of the state cell of the j-th Instance:
\* the update is recorded as pending and a re-render request is enqueued.
SetterCall(j, n, value) ==
    /\ queue < MaxRequests
    /\ j \in DOMAIN tree
    /\ n \in DOMAIN tree[j].slots
    /\ tree[j].slots[n].kind = "state"
    /\ tree' = [tree EXCEPT ![j].slots[n].pending = value]
    /\ queue' = queue + 1
    /\ passlog' = <<>>
    /\ turn' = EngineOp("set", 0, NoFault)
    /\ UNCHANGED notEngine

\* One turn of the driving loop at the end of an event tick: the enqueued
\* requests are served by one render pass over the Elements now declared.
LoopTurn(elements, fault) ==
    /\ queue > 0
    /\ FaultApplies(tree, elements, fault)
    /\ queue' = Drain(queue)
    /\ LET pass == RenderPass(tree, elements, fault)
       IN /\ tree' = pass.tree
          /\ passlog' = pass.log
    /\ turn' = EngineOp("turn", queue, fault)
    /\ UNCHANGED notEngine

EngineNext ==
    \/ \E j \in 1..MaxChildren, n \in 1..MaxSlots, value \in StateVals : SetterCall(j, n, value)
    \/ \E elements \in ElementLists, fault \in Faults : LoopTurn(elements, fault)

(***************************************************************************)
(* Context stack: provide, consume and scoped release during the           *)
(* depth-first walk of one render pass.                                    *)
(***************************************************************************)
Nodes == 1..MaxNodes
TypeTags == {"T1", "T2"}
Absent == 0

\* The fields of the context struct a component declares, by name, with the
\* type of each: #[context] struct Context { first: T1, second: T2 }.
ContextFields == {"first", "second"}
FieldType(field) == IF field = "first" THEN "T1" ELSE "T2"

\* The value a providing component provides: one per provider.
ProvidedValue(n) == n

\* Context Frame { type_tag, value }, with the component that pushed it.
Frame(tag, value, owner) == [type_tag |-> tag, value |-> value, owner |-> owner]

\* consume(type_tag): linear search from the top of the stack downward for the
\* nearest frame of the type; "absent" when there is none.
GetFromComponentUpdater(stack, tag) ==
    LET hits == {p \in DOMAIN stack : stack[p].type_tag = tag}
    IN IF hits = {} THEN Absent
       ELSE stack[CHOOSE p \in hits : \A q \in hits : q <= p].value

\* ContextRefs::refs_from_component_updater: one reference per field of the
\* context struct, each obtained by the field's own type.
RefsOfFirstFieldType(stack) ==
    [field \in ContextFields |-> GetFromComponentUpdater(stack, FieldType("first"))]
RefsFromComponentUpdater(stack) ==
    [field \in ContextFields |-> GetFromComponentUpdater(stack, FieldType(field))]

\* provide(type_tag, value): pushes a frame.
Provide(stack, tag, n) ==
    IF tag = "none" THEN stack ELSE Append(stack, Frame(tag, ProvidedValue(n), n))

\* Scoped release: the frames a component pushed are popped when its update
\* returns.
ReleaseNothing(stack, n) == stack
Release(stack, n) ==
    IF stack # <<>> /\ Last(stack).owner = n THEN SubSeq(stack, 1, Len(stack) - 1)
    ELSE stack

\* The children of a component, and the next one its update recurses into.
Children(parent, n) == {c \in Nodes : parent[c] = n}
NextChild(parent, visited, n) ==
    LET left == Children(parent, n) \ visited
    IN IF left = {} THEN 0 ELSE CHOOSE c \in left : \A d \in left : c <= d

\* The component trees of a pass: node 1 is the root, and every other node's
\* parent is a node declared before it.
Trees == {parent \in [Nodes -> 0..MaxNodes] :
            /\ parent[1] = 0
            /\ \A n \in Nodes \ {1} : parent[n] \in 1..(n - 1)}

NotObserved == [field \in ContextFields |-> Absent]

\* The context variables while another subsystem runs.
ContextIdle ==
    /\ cparent = [n \in Nodes |-> n - 1]
    /\ cprovides = [n \in Nodes |-> "none"]
    /\ cstack = <<>>
    /\ cpath = <<>>
    /\ cvisited = {}
    /\ observed = [n \in Nodes |-> NotObserved]

\* A pass is about to walk some tree of providers; the stack is empty.
ContextInit ==
    /\ cparent \in Trees
    /\ cprovides \in [Nodes -> {"none"} \cup TypeTags]
    /\ cstack = <<>>
    /\ cpath = <<>>
    /\ cvisited = {}
    /\ observed = [n \in Nodes |-> NotObserved]

\* The update of component n begins: it obtains its context references, then
\* pushes the frame it provides, and goes on to its children.
ContextEnter(n) ==
    /\ n \notin cvisited
    /\ IF cpath = <<>> THEN n = 1 ELSE n = NextChild(cparent, cvisited, Last(cpath))
    /\ observed' = [observed EXCEPT ![n] = RefsFromComponentUpdater(cstack)]
    /\ cstack' = Provide(cstack, cprovides[n], n)
    /\ cpath' = Append(cpath, n)
    /\ cvisited' = cvisited \cup {n}
    /\ UNCHANGED <<cparent, cprovides, notContext>>

\* The update of the innermost running component returns, all its children
\* updated: its frame is popped.
ContextExit ==
    /\ cpath # <<>>
    /\ NextChild(cparent, cvisited, Last(cpath)) = 0
    /\ cstack' = Release(cstack, Last(cpath))
    /\ cpath' = SubSeq(cpath, 1, Len(cpath) - 1)
    /\ UNCHANGED <<cparent, cprovides, cvisited, observed, notContext>>

ContextNext ==
    \/ \E n \in Nodes : ContextEnter(n)
    \/ ContextExit

(***************************************************************************)
(* element!: ParsedElement::parse and ParsedElement::to_tokens             *)
(***************************************************************************)
\* The fields of <ty as ElementType>::Props for the element types declared.
ElementTypes == {"Box", "Keyed", "Text"}
PropsFields(ty) ==
    IF ty = "Box" THEN {"width", "children"}
    ELSE IF ty = "Keyed" THEN {"width", "key", "children"}
    ELSE {"content"}

\* The value of a property expression in the generated struct literal:
\* an integer or float literal with suffix pct becomes Percent(value).into(),
\* every other expression becomes (expr).into().
Lit(suffix, value) == [suffix |-> suffix, value |-> value]
PercentInto(value) == [conv |-> "Percent.into", of |-> value]
Into(value) == [conv |-> "into", of |-> value]
PropTokens(expr) ==
    IF expr.suffix = "pct" THEN PercentInto(expr.value) ELSE Into(expr.value)

\* core::default::Default::default(), for the key and for every property the
\* declaration does not supply.
DefaultValue == [conv |-> "default", of |-> 0]
PropsDefault(ty) ==
    [field \in PropsFields(ty) |-> IF field = "children" THEN <<>> ELSE DefaultValue]

\* FieldValue { member, expr }.
FieldValue(member, expr) == [member |-> member, expr |-> expr]

\* enum ParsedElementChild { Element(ParsedElement), Expr(Expr) }.
ChildElement(d) == [kind |-> "Element", element |-> d]
ChildExpr(value) == [kind |-> "Expr", expr |-> value]

\* A child as declared between the braces: #(expr) or a nested element.
DeclaredExpr(value) == [hash |-> TRUE, expr |-> value]
DeclaredElement(d) == [hash |-> FALSE, element |-> d]

\* The expansion either evaluates to an Element or is rejected by the
\* compiler (a member that is no field of Props, a member supplied twice, or
\* children for a Props without a children field).
Rejected == [ok |-> FALSE]
Built(element) == [ok |-> TRUE, element |-> element]
NotBuilt == [ok |-> FALSE, pending |-> TRUE]

\* parse: the children between the braces, in declaration order; none when
\* the declaration has no braces.
RECURSIVE Parse(_)
RECURSIVE ParseChildren(_, _)
ParseChildren(items, children) ==
    IF items = <<>> THEN children
    ELSE ParseChildren(Tail(items),
                       Append(children,
                              IF Head(items).hash THEN ChildExpr(Head(items).expr)
                              ELSE ChildElement(Parse(Head(items).element))))
Parse(d) ==
    [ty |-> d.ty,
     props |-> d.props,
     children |-> IF d.braces THEN ParseChildren(d.items, <<>>) ELSE <<>>]

\* extend_with_elements(dst, x): an Element is appended, a sequence of
\* Elements is appended element by element.
ExtendWithElements(dst, x) ==
    IF x.kind = "Element" THEN Append(dst, x.element) ELSE dst \o x.expr

\* #(extend_with_elements(&mut _iocraft_element.props.children, #children);)*
\* one statement per child, in the order of self.children.
RECURSIVE SetChildrenLastFirst(_, _)
SetChildrenLastFirst(dst, values) ==
    IF values = <<>> THEN dst
    ELSE SetChildrenLastFirst(ExtendWithElements(dst, Last(values)),
                              SubSeq(values, 1, Len(values) - 1))
RECURSIVE SetChildren(_, _)
SetChildren(dst, values) ==
    IF values = <<>> THEN dst
    ELSE SetChildren(ExtendWithElements(dst, Head(values)), Tail(values))

\* The props of the struct literal: Props { #(#props,)* ..Default::default() }.
Members(props) == {props[i].member : i \in DOMAIN props}
Supplied(props, member) ==
    PropTokens(props[CHOOSE i \in DOMAIN props : props[i].member = member].expr)
PropsLiteral(ty, props) ==
    [field \in PropsFields(ty) |->
        IF field \in Members(props) THEN Supplied(props, field) ELSE PropsDefault(ty)[field]]
PropsCompile(ty, props) ==
    /\ Members(props) \subseteq PropsFields(ty)
    /\ \A i, j \in DOMAIN props : props[i].member = props[j].member => i = j

\* Element::<ty> { key: Default::default(), props: Props { .. } }.
ElementKey(ty, props) == DefaultValue

\* to_tokens: the block the macro expands to, evaluated.  A nested element
\* child expands, recursively, to its own block.
RECURSIVE ToTokens(_)
RECURSIVE ChildValues(_, _)
ChildValues(children, values) ==
    IF children = <<>> THEN [ok |-> TRUE, values |-> values]
    ELSE IF Head(children).kind = "Expr"
         THEN ChildValues(Tail(children), Append(values, Head(children)))
         ELSE LET child == ToTokens(Head(children).element)
              IN IF child.ok
                 THEN ChildValues(Tail(children), Append(values, ChildElement(child.element)))
                 ELSE [ok |-> FALSE, values |-> <<>>]
ToTokens(parsed) ==
    IF ~PropsCompile(parsed.ty, parsed.props) THEN Rejected
    ELSE LET element == [ty |-> parsed.ty,
                         key |-> ElementKey(parsed.ty, parsed.props),
                         props |-> PropsLiteral(parsed.ty, parsed.props)]
         IN IF parsed.children = <<>> THEN Built(element)
            ELSE IF "children" \notin PropsFields(parsed.ty) THEN Rejected
            ELSE LET vals == ChildValues(parsed.children, <<>>)
                 IN IF ~vals.ok THEN Rejected
                    ELSE Built([element EXCEPT !.props.children =
                                   SetChildren(element.props.children, vals.values)])

\* element!(input): parse_macro_input!(input as ParsedElement), quote!(#element).
ElementMacro(d) == ToTokens(Parse(d))

\* The declarations handed to element!.
Declaration(ty, props, braces, items) ==
    [ty |-> ty, props |-> props, braces |-> braces, items |-> items]
TextDecls ==
    {Declaration("Text", <<FieldValue("content", Lit("", v))>>, FALSE, <<>>) : v \in {1, 2}}
TextElements == {ElementMacro(d).element : d \in TextDecls}
NestedDecls ==
    TextDecls \cup
    {Declaration("Box", <<>>, TRUE, <<DeclaredElement(d), DeclaredExpr(<<ElementMacro(d).element>>)>>) :
        d \in {Declaration("Text", <<FieldValue("content", Lit("", 1))>>, FALSE, <<>>)}}
PassThroughs == SeqsUpTo(TextElements, MaxPassThrough)
DeclaredChildren ==
    {DeclaredElement(d) : d \in NestedDecls} \cup {DeclaredExpr(v) : v \in PassThroughs}
DeclaredProps ==
    {<<>>,
     <<FieldValue("width", Lit("pct", 50))>>,
     <<FieldValue("width", Lit("", 1))>>,
     <<FieldValue("key", Lit("", 7))>>,
     <<FieldValue("width", Lit("", 1)), FieldValue("key", Lit("", 7))>>,
     <<FieldValue("key", Lit("", 7)), FieldValue("width", Lit("pct", 50))>>,
     <<FieldValue("width", Lit("", 1)), FieldValue("width", Lit("pct", 50))>>}
Declarations ==
    {Declaration(ty, props, braces, items) :
        ty \in ElementTypes, props \in DeclaredProps, braces \in BOOLEAN,
        items \in SeqsUpTo(DeclaredChildren, MaxDeclChildren)}

\* The element variables while another subsystem runs.
ElementIdle ==
    /\ decl = Declaration("Text", <<>>, FALSE, <<>>)
    /\ built = NotBuilt

ElementInit ==
    /\ decl \in {d \in Declarations :
                    /\ d.braces \/ d.items = <<>>
                    /\ d.ty = "Text" => Len(d.items) <= 1}
    /\ built = NotBuilt

\* The expansion of element!(decl) is evaluated.
ElementBuild ==
    /\ built = NotBuilt
    /\ built' = ElementMacro(decl)
    /\ UNCHANGED <<decl, notElement>>

ElementNext == ElementBuild

(***************************************************************************)
(* #[component]: the update that ParsedComponent::to_tokens generates      *)
(***************************************************************************)
\* fn update(&mut self, props, hooks, updater) {
\*     let mut e = {
\*         let mut context_refs = Ty::refs_from_component_updater(updater);
\*         Self::implementation(args).into()
\*     };
\*     updater.update_children([&mut e], None);
\* }
\* The first line of the block is generated only for a component function
\* with a context argument, whose implementation argument is then
\* Ty::borrow_refs(&mut context_refs).
UpdateEvent(ev, element) == [ev |-> ev, element |-> element]
NoElement == [ty |-> "none"]

\* What the implementation can return, and whether it returns at all.
Implementations == TextElements
Outcomes == {"returns", "panics"}

\* let mut context_refs = ...: generated when context_type is Some.
TakeContextRefs(ty) == ty = "Some"

\* The end of the block that binds e, or unwinding out of it, drops
\* context_refs.
KeepContextRefs(held) == held
DropContextRefs(held) == FALSE

\* The events of taking and of dropping the references, when there are any.
RefsEvents(ev, held) == IF held THEN <<UpdateEvent(ev, NoElement)>> ELSE <<>>

\* The component variables while another subsystem runs.
ComponentIdle ==
    /\ context_type = "None"
    /\ upc = "idle"
    /\ context_refs = FALSE
    /\ produced = NoElement
    /\ registered = <<>>
    /\ utrace = <<>>
    /\ nupdates = 0

ComponentInit ==
    /\ context_type \in {"None", "Some"}
    /\ upc = "idle"
    /\ context_refs = FALSE
    /\ produced = NoElement
    /\ registered = <<>>
    /\ utrace = <<>>
    /\ nupdates = 0

\* update is called; the block opens and takes the context references.
UpdateEnter ==
    /\ upc \in {"idle", "unwound"}
    /\ nupdates < MaxUpdates
    /\ nupdates' = nupdates + 1
    /\ context_refs' = TakeContextRefs(context_type)
    /\ utrace' = RefsEvents("refs_from_component_updater", TakeContextRefs(context_type))
    /\ produced' = NoElement
    /\ upc' = "block"
    /\ UNCHANGED <<context_type, registered, notComponent>>

\* Self::implementation(args).into(): the arguments are evaluated, borrowing
\* the references, and the user's function runs; it returns an element or
\* panics, and a panic unwinds out of update, dropping the references.
UpdateImplementation(element, outcome) ==
    /\ upc = "block"
    /\ LET ran == utrace \o RefsEvents("borrow_refs", context_refs)
                        \o <<UpdateEvent("implementation", NoElement)>>
       IN IF outcome = "returns"
          THEN /\ produced' = Into(element)
               /\ utrace' = ran
               /\ upc' = "produced"
               /\ UNCHANGED context_refs
          ELSE /\ produced' = NoElement
               /\ context_refs' = DropContextRefs(context_refs)
               /\ utrace' = ran \o RefsEvents("drop", context_refs /\ ~context_refs')
               /\ upc' = "unwound"
    /\ UNCHANGED <<context_type, registered, nupdates, notComponent>>

\* The block ends: e is bound and context_refs goes out of scope.
UpdateBlockEnd ==
    /\ upc = "produced"
    /\ context_refs' = DropContextRefs(context_refs)
    /\ utrace' = utrace \o RefsEvents("drop", context_refs /\ ~context_refs')
    /\ upc' = "bound"
    /\ UNCHANGED <<context_type, produced, registered, nupdates, notComponent>>

\* updater.update_children([&mut e], None)
UpdateChildren ==
    /\ upc = "bound"
    /\ registered' = <<produced>>
    /\ utrace' = Append(utrace, UpdateEvent("update_children", produced))
    /\ upc' = "registered"
    /\ UNCHANGED <<context_type, context_refs, produced, nupdates, notComponent>>

\* update returns.
UpdateReturn ==
    /\ upc = "registered"
    /\ utrace' = Append(utrace, UpdateEvent("return", NoElement))
    /\ upc' = "idle"
    /\ UNCHANGED <<context_type, context_refs, produced, registered, nupdates, notComponent>>

ComponentNext ==
    \/ UpdateEnter
    \/ \E element \in Implementations, outcome \in Outcomes :
          UpdateImplementation(element, outcome)
    \/ UpdateBlockEnd
    \/ UpdateChildren
    \/ UpdateReturn

(***************************************************************************)
(* Properties of Handler                                                   *)
(***************************************************************************)
\* The calls the callables saw through one route: 0 is the slot itself, i >= 1
\* the i-th taken value, TemporaryVia the temporary of take().invoke().
CountVia(log, via) == Cardinality({i \in DOMAIN log : log[i].via = via})

\* C1: for a handler set to a callable f, take() leaves the slot unset and
\* returns the previous content; from then on invoke(v) on the slot calls
\* nothing, and one invoke(v) of the returned value calls f exactly once with v.
C1_TakeMovesTheCallableOut ==
    [][/\ (hop'.op = "take" /\ ~IsNone(handler)
            => IsNone(handler') /\ Last(taken') = handler /\ calls' = calls)
       /\ (hop'.op = "invoke" /\ (\E i \in DOMAIN taken : ~IsNone(taken[i]))
            => IsNone(handler) /\ calls' = calls)
       /\ (hop'.op = "invoke_taken" /\ ~IsNone(taken[hop'.idx])
            => calls' = Append(calls, [f |-> taken[hop'.idx].f, value |-> hop'.value,
                                       via |-> hop'.idx]))
      ]_vars

\* C1 witness: a set handler was taken, the slot is unset, and the one invoke
\* of the taken value is the only call the callable has seen.
C1_Witness ==
    /\ hop.op = "invoke_taken"
    /\ IsNone(handler)
    /\ ~IsNone(taken[hop.idx])
    /\ calls = <<[f |-> taken[hop.idx].f, value |-> 42, via |-> hop.idx]>>

\* C2: invoke(v) on an unset handler calls nothing, raises nothing and leaves
\* the handler unset, for the slot and for a value taken from an unset slot.
C2_InvokeUnsetIsNoOp ==
    [][/\ (hop'.op = "invoke" /\ IsNone(handler)
            => calls' = calls /\ ~raised' /\ IsNone(handler') /\ taken' = taken)
       /\ (hop'.op = "invoke_taken" /\ IsNone(taken[hop'.idx])
            => calls' = calls /\ ~raised' /\ taken' = taken /\ handler' = handler)
       /\ (hop'.op = "take_invoke" /\ IsNone(handler)
            => calls' = calls /\ ~raised' /\ IsNone(handler') /\ taken' = taken)
      ]_vars

\* C2 witness: a value taken from an unset handler has been invoked.
C2_Witness ==
    /\ hop.op = "invoke_taken"
    /\ IsNone(taken[hop.idx])
    /\ IsNone(handler)
    /\ calls = <<>>
    /\ ~raised

\* C3 as stated: through one value returned by take() the stored callable
\* runs at most once, whatever invoke calls are made on that value.
C3_TakenValueIsSingleUse == \A i \in DOMAIN taken : CountVia(calls, i) <= 1

\* C3 as amended: the value returned by take() owns the callable and stays
\* set: every invoke on it runs the callable once more, so n invokes run it n
\* times; nothing but that value runs the callable after the take.
C3_TakenValueFiresOnEveryInvoke ==
    [][/\ (hop'.op = "invoke_taken" /\ ~IsNone(taken[hop'.idx])
            => /\ CountVia(calls', hop'.idx) = CountVia(calls, hop'.idx) + 1
               /\ Last(calls').f = taken[hop'.idx].f
               /\ taken' = taken)
       /\ \A i \in DOMAIN taken :
            hop'.op # "invoke_taken" \/ hop'.idx # i
            => CountVia(calls', i) = CountVia(calls, i)
      ]_vars

\* C3 witness: one taken value has run its callable twice.
C3_Witness ==
    \E i \in DOMAIN taken :
        /\ ~IsNone(taken[i])
        /\ CountVia(calls, i) = 2
        /\ \A k \in DOMAIN calls : calls[k].via = i => calls[k].f = taken[i].f

\* C14: take().invoke(v) steps on one slot that started set to f call f at
\* most once in total: the step that finds the slot set calls f once with its
\* value and leaves the slot unset, and every step that finds it unset calls
\* nothing and raises nothing.
C14_TakeInvokeFiresAtMostOnce ==
    /\ [](CountVia(calls, TemporaryVia) <= 1)
    /\ [][hop'.op = "take_invoke"
            => /\ IsNone(handler')
               /\ taken' = taken
               /\ IF IsNone(handler)
                  THEN calls' = calls /\ raised' = raised
                  ELSE calls' = Append(calls, [f |-> handler.f, value |-> hop'.value,
                                               via |-> TemporaryVia])
         ]_vars

\* C14 witness: a take().invoke(0) step has just found the slot unset, after
\* an earlier take().invoke(42) step made the only call f has seen.
C14_Witness ==
    /\ hop.op = "take_invoke"
    /\ hop.value = 0
    /\ IsNone(handler)
    /\ taken = <<>>
    /\ Len(calls) = 1
    /\ calls[1].via = TemporaryVia
    /\ calls[1].value = 42

\* C15: invoke(v) on a set handler calls the stored callable exactly once
\* with v and leaves the handler set, so n invokes make n calls; the only
\* operations that turn a set handler into an unset one are the takes.
C15_InvokeLeavesHandlerSet ==
    [][/\ (hop'.op = "invoke" /\ ~IsNone(handler)
            => /\ calls' = Append(calls, [f |-> handler.f, value |-> hop'.value, via |-> 0])
               /\ handler' = handler
               /\ taken' = taken)
       /\ (~IsNone(handler) /\ IsNone(handler') => hop'.op \in {"take", "take_invoke"})
       /\ (hop'.op = "is_none" /\ ~IsNone(handler) => ~hop'.result /\ handler' = handler)
      ]_vars

\* C15 witness: three successive invokes of a set handler made three calls of
\* its callable, and the handler is still set.
C15_Witness ==
    /\ hop.op = "invoke"
    /\ ~IsNone(handler)
    /\ Len(calls) = 3
    /\ \A k \in DOMAIN calls : calls[k].via = 0 /\ calls[k].f = handler.f

(***************************************************************************)
(* Properties of Text                                                      *)
(***************************************************************************)
\* C10: the measure function an update registers returns, for every
\* constraint, height 1 and the length (String::len) of the content last set
\* by new or set_props, which is 2 for "hi"; and every later call of the
\* registered function returns its size whatever the constraints are.
C10_TextMeasuresItsContent ==
    /\ top = "update" =>
          /\ measure_func.set
          /\ \A known \in Known, avail_w \in Avail, avail_h \in Avail :
                Measure(measure_func, known, avail_w, avail_h)
                    = [width |-> StrLen(text.content), height |-> 1]
          /\ text.content = <<"h", "i">> =>
                Measure(measure_func, "None", 0, 0) = [width |-> 2, height |-> 1]
    /\ top = "measure" =>
          /\ measured.width = measure_func.width
          /\ measured.height = 1

\* C10 witness: a Text whose content was set to "hi" by new or set_props has
\* been updated and then measured under a constraint narrower than its content.
C10_Witness ==
    /\ top = "measure"
    /\ text.content = <<"h", "i">>
    /\ measured.called
    /\ measured.avail_w = 0
    /\ measured.width = 2
    /\ measured.height = 1

(***************************************************************************)
(* Properties of the component tree lifecycle engine                       *)
(***************************************************************************)
\* The last event of the log reports a failed update.
PassFailed(lg) == lg # <<>> /\ Last(lg).ev \in {"raise", "usage_violation"}

\* The positions of the log holding an event ev of the Instance id.
EventsOf(lg, ev, id) == {p \in DOMAIN lg : lg[p].ev = ev /\ lg[p].id = id}

\* The value a state cell shows once its pending update is committed.
Committed(slot) == IF slot.pending = NoPending THEN slot.value ELSE slot.pending

\* C4: in every committed pass, an Instance whose identity is in the old and
\* in the new list, at whatever index, is reused: the pass neither mounts nor
\* drops it and runs none of its cleanups for an unmount, it keeps its slots,
\* and each state cell keeps its value unless a setter call left an update.
C4_KeyedInstanceIsReused ==
    [][turn'.op = "turn" /\ ~PassFailed(passlog') =>
        \A j \in DOMAIN tree : \A k \in DOMAIN tree' :
            tree'[k].ident = tree[j].ident =>
                /\ EventsOf(passlog', "mount", tree[j].ident) = {}
                /\ EventsOf(passlog', "drop", tree[j].ident) = {}
                /\ \E p \in EventsOf(passlog', "update", tree[j].ident) :
                        passlog'[p].m = j /\ passlog'[p].n = k
                /\ Len(tree'[k].slots) = Len(tree[j].slots)
                /\ \A n \in DOMAIN tree[j].slots :
                        /\ tree'[k].slots[n].kind = tree[j].slots[n].kind
                        /\ tree[j].slots[n].kind = "state" =>
                              tree'[k].slots[n].value = Committed(tree[j].slots[n])
      ]_vars

\* C4 witness: two keyed siblings of one type have swapped places in the last
\* pass, and the one now first holds a state a setter gave it before.
C4_Witness ==
    /\ turn.op = "turn"
    /\ Len(tree) = 2
    /\ tree[1].ident = [type |-> "A", by |-> "key", k |-> 2]
    /\ tree[2].ident = [type |-> "A", by |-> "key", k |-> 1]
    /\ tree[1].slots[1].value = 1
    /\ tree[2].slots[1].value = 0
    /\ passlog = <<Event("update", tree[1].ident, 2, 1), Event("update", tree[2].ident, 1, 2)>>

\* C5: in a committed pass, for every Instance whose identity the new list
\* lacks, each slot that holds a cleanup has it run exactly once, in slot
\* order, and all of them before the one drop of the Instance; and no pass
\* runs a cleanup that the tree before the pass does not hold, or runs one
\* twice, so a cleanup that has run never runs again.
C5_UnmountRunsCleanupsOnce ==
    [][turn'.op = "turn" =>
        /\ \A j \in DOMAIN tree :
              (~PassFailed(passlog') /\ \A k \in DOMAIN tree' : tree'[k].ident # tree[j].ident)
              => LET id == tree[j].ident
                     cleans == EventsOf(passlog', "cleanup", id)
                     drops == EventsOf(passlog', "drop", id)
                 IN /\ Cardinality(drops) = 1
                    /\ \A n \in DOMAIN tree[j].slots :
                          Cardinality({p \in cleans : passlog'[p].n = n})
                              = (IF tree[j].slots[n].cleanup THEN 1 ELSE 0)
                    /\ \A p \in cleans : \A q \in cleans :
                          p < q => passlog'[p].n < passlog'[q].n
                    /\ \A p \in cleans : \A q \in drops : p < q
        /\ \A p \in DOMAIN passlog' :
              passlog'[p].ev = "cleanup" =>
                  /\ \E j \in DOMAIN tree :
                        /\ tree[j].ident = passlog'[p].id
                        /\ passlog'[p].n \in DOMAIN tree[j].slots
                        /\ tree[j].slots[passlog'[p].n].cleanup
                  /\ \A q \in DOMAIN passlog' :
                        (passlog'[q].ev = "cleanup" /\ passlog'[q].id = passlog'[p].id
                            /\ passlog'[q].n = passlog'[p].n) => q = p
      ]_vars

\* C5 witness: the last pass unmounted an A: its two cleanups ran, slot 2
\* before slot 3, and then it was dropped.
C5_Witness ==
    /\ turn.op = "turn"
    /\ \E p \in DOMAIN passlog :
          /\ p + 2 \in DOMAIN passlog
          /\ passlog[p].ev = "cleanup" /\ passlog[p].n = 2
          /\ passlog[p + 1].ev = "cleanup" /\ passlog[p + 1].n = 3
          /\ passlog[p + 2].ev = "drop"
          /\ passlog[p + 1].id = passlog[p].id
          /\ passlog[p + 2].id = passlog[p].id
          /\ \A k \in DOMAIN tree : tree[k].ident # passlog[p].id

\* C7: a setter call runs no pass: it records the pending update, changes no
\* committed value and enqueues a request; a turn of the driving loop serves
\* every enqueued request with its one pass, and after a committed pass each
\* surviving state cell shows the update the last setter call left.
C7_SetterCallsCoalesce ==
    [][/\ turn'.op = "set" =>
            /\ passlog' = <<>>
            /\ queue' = queue + 1
            /\ \E j \in DOMAIN tree : \E n \in DOMAIN tree[j].slots :
                  /\ tree[j].slots[n].kind = "state"
                  /\ tree'[j].slots[n].pending \in StateVals
                  /\ tree' = [tree EXCEPT ![j].slots[n].pending = tree'[j].slots[n].pending]
       /\ turn'.op = "turn" =>
            /\ turn'.served = queue
            /\ queue' = 0
            /\ ~PassFailed(passlog') =>
                  \A j \in DOMAIN tree : \A k \in DOMAIN tree' :
                      tree'[k].ident = tree[j].ident =>
                          \A n \in DOMAIN tree[j].slots :
                              tree[j].slots[n].kind = "state" =>
                                  /\ tree'[k].slots[n].pending = NoPending
                                  /\ tree'[k].slots[n].value = Committed(tree[j].slots[n])
      ]_vars

\* C7 witness: one turn served two requests, and the state cell of the first
\* Instance shows 1, which only a setter call can have left.
C7_Witness ==
    /\ turn.op = "turn"
    /\ turn.served = 2
    /\ queue = 0
    /\ ~PassFailed(passlog)
    /\ Len(tree) >= 1
    /\ tree[1].slots[1].kind = "state"
    /\ tree[1].slots[1].value = 1
    /\ tree[1].slots[1].pending = NoPending

RECURSIVE Ancestors(_, _)
Ancestors(parent, n) ==
    IF parent[n] = 0 THEN {} ELSE {parent[n]} \cup Ancestors(parent, parent[n])
NearestProvided(parent, provides, n, tag) ==
    LET providers == {a \in Ancestors(parent, n) : provides[a] = tag}
    IN IF providers = {} THEN Absent
       ELSE ProvidedValue(CHOOSE a \in providers :
                            \A b \in providers : b \in Ancestors(parent, a) \cup {a})

\* C6: every component's update obtains, for each type, the value of the
\* nearest enclosing ancestor that provides it and "absent" when no ancestor
\* does; the stack holds exactly the frames of the providers whose update is
\* running, so a frame is gone when its provider's update returns and no
\* sibling of the provider, nor a descendant of one, sees it.
C6_ConsumeSeesNearestAncestor ==
    /\ \A n \in cvisited : \A field \in ContextFields :
          observed[n][field] = NearestProvided(cparent, cprovides, n, FieldType(field))
    /\ \A p \in DOMAIN cstack : \E q \in DOMAIN cpath : cstack[p].owner = cpath[q]
    /\ \A q \in DOMAIN cpath :
          cprovides[cpath[q]] # "none" => \E p \in DOMAIN cstack : cstack[p].owner = cpath[q]
    /\ cpath = <<>> => cstack = <<>>

\* C6 witness: the pass is over; the root's two children are siblings, the
\* first provided T1 and the second, updated after it, saw T1 absent.
C6_Witness ==
    /\ cvisited = Nodes
    /\ cpath = <<>>
    /\ cparent[2] = 1
    /\ cparent[3] = 1
    /\ cprovides[1] = "none"
    /\ cprovides[2] = "T1"
    /\ observed[3]["first"] = Absent

(***************************************************************************)
(* Properties of element!                                                  *)
(***************************************************************************)
\* What one declared child contributes, and the flattening of a child list.
Contribution(item) ==
    IF item.hash THEN item.expr ELSE <<ElementMacro(item.element).element>>
RECURSIVE Flatten(_)
Flatten(items) ==
    IF items = <<>> THEN <<>> ELSE Contribution(Head(items)) \o Flatten(Tail(items))

\* C11: the children of a built Element are the flattening of its declared
\* child list, in declaration order: a nested Element contributes itself, a
\* pass-through sequence all its elements; with no children declared the
\* child list is the default, empty one.
C11_ChildrenAreFlattenedInOrder ==
    built.ok /\ "children" \in PropsFields(decl.ty)
    => built.element.props.children = Flatten(decl.items)

\* C11 witness: an Element was built from a pass-through sequence of two
\* elements followed by a nested Element that differs from both.
C11_Witness ==
    /\ built.ok
    /\ Len(decl.items) = 2
    /\ decl.items[1].hash
    /\ Len(decl.items[1].expr) = 2
    /\ ~decl.items[2].hash
    /\ Len(built.element.props.children) = 3
    /\ built.element.props.children[3].ty = "Box"
    /\ built.element.props.children[1].ty = "Text"

\* The declarations that supply a key and are otherwise well formed: no
\* member twice, every other member a field of Props, children only for a
\* Props with a child list.
DeclaresKey(d) ==
    /\ "key" \in Members(d.props)
    /\ \A i, j \in DOMAIN d.props : d.props[i].member = d.props[j].member => i = j
    /\ Members(d.props) \ {"key"} \subseteq PropsFields(d.ty)
    /\ d.items = <<>> \/ "children" \in PropsFields(d.ty)

\* C12 as stated: an element declared with a key is built with that key, the
\* key is no field of its property bundle, every other supplied property
\* overrides the default and every unsupplied one keeps it.
C12_KeyIsExtractedFromProps ==
    built # NotBuilt /\ DeclaresKey(decl)
    => /\ built.ok
       /\ built.element.key = Supplied(decl.props, "key")
       /\ "key" \notin DOMAIN built.element.props
       /\ \A field \in DOMAIN built.element.props \ {"children"} :
            built.element.props[field] =
                IF field \in Members(decl.props) THEN Supplied(decl.props, field)
                ELSE DefaultValue

\* C12 witness: an element declared with key 7 and no other property was
\* built with the default key, and the 7 is the key field of its properties.
C12_Witness ==
    /\ built.ok
    /\ decl.ty = "Keyed"
    /\ Members(decl.props) = {"key"}
    /\ built.element.key = DefaultValue
    /\ built.element.props.key = Into(7)
    /\ built.element.props.width = DefaultValue

\* C12, the part the expansion delivers: every supplied member is the field
\* of that name converted by into() (Percent for a pct literal), every other
\* field keeps the default, and the Element's key is the default.
C12_SuppliedPropsOverrideDefaults ==
    built.ok
    => /\ built.element.key = DefaultValue
       /\ \A field \in DOMAIN built.element.props \ {"children"} :
            built.element.props[field] =
                IF field \in Members(decl.props) THEN Supplied(decl.props, field)
                ELSE DefaultValue

(***************************************************************************)
(* Properties of the generated update                                      *)
(***************************************************************************)
\* What an update that returned did, for a component with or without a
\* context argument that produced element.
ReturnedTrace(ty, element) ==
    RefsEvents("refs_from_component_updater", ty = "Some")
    \o RefsEvents("borrow_refs", ty = "Some")
    \o <<UpdateEvent("implementation", NoElement)>>
    \o RefsEvents("drop", ty = "Some")
    \o <<UpdateEvent("update_children", element), UpdateEvent("return", NoElement)>>

\* C13: an update runs the implementation once; when update_children is
\* called the context references have been dropped, the call registers the one
\* element the implementation produced and is the last thing the update does;
\* an update that has returned did exactly that, in that order.
C13_UpdateEndsByRegistering ==
    /\ Cardinality({i \in DOMAIN utrace : utrace[i].ev = "implementation"}) <= 1
    /\ upc \in {"bound", "registered"} => ~context_refs
    /\ upc = "registered"
        => /\ registered = <<produced>>
           /\ produced # NoElement
           /\ Last(utrace) = UpdateEvent("update_children", produced)
    /\ upc = "idle" /\ nupdates > 0
        => /\ utrace = ReturnedTrace(context_type, produced)
           /\ registered = <<produced>>
           /\ ~context_refs
    /\ upc = "unwound"
        => \A i \in DOMAIN utrace : utrace[i].ev \notin {"update_children", "return"}

\* C13 witness: the second update of a component with a context argument has
\* returned, having taken, borrowed and dropped the references before it
\* registered its element.
C13_Witness ==
    /\ upc = "idle"
    /\ nupdates = 2
    /\ context_type = "Some"
    /\ Len(utrace) = 6
    /\ utrace[4].ev = "drop"
    /\ utrace[5].ev = "update_children"
    /\ registered = <<produced>>

(***************************************************************************)
(* Specifications                                                          *)
(***************************************************************************)
InitHandler == HandlerInit /\ TextIdle /\ EngineIdle /\ ContextIdle /\ ElementIdle /\ ComponentIdle
SpecHandler == InitHandler /\ [][HandlerNext]_vars

InitText == TextInit /\ HandlerIdle /\ EngineIdle /\ ContextIdle /\ ElementIdle /\ ComponentIdle
SpecText == InitText /\ [][TextNext]_vars

InitEngine == EngineInit /\ HandlerIdle /\ TextIdle /\ ContextIdle /\ ElementIdle /\ ComponentIdle
SpecEngine == InitEngine /\ [][EngineNext]_vars

InitContext == ContextInit /\ HandlerIdle /\ TextIdle /\ EngineIdle /\ ElementIdle /\ ComponentIdle
SpecContext == InitContext /\ [][ContextNext]_vars

InitElement ==
    ElementInit /\ HandlerIdle /\ TextIdle /\ EngineIdle /\ ContextIdle /\ ComponentIdle
SpecElement == InitElement /\ [][ElementNext]_vars

InitComponent ==
    /\ ComponentInit /\ HandlerIdle /\ TextIdle /\ EngineIdle /\ ContextIdle
    /\ ElementIdle
SpecComponent == InitComponent /\ [][ComponentNext]_vars

====
